---- MODULE Spec2Model ----
(***************************************************************************)
(* Model of the AajKyaHai Astro API (src/main.py): the /astro request      *)
(* handler, its time normalisation, and the three classifier functions     *)
(* zodiac_from_longitude, nakshatra_from_longitude, tithi_from_longitudes. *)
(*                                                                         *)
(* Numbers.  Longitudes are Python floats.  They are modelled as binary    *)
(* floating point numbers with a MantBits-bit significand (53 in CPython), *)
(* round-to-nearest, ties-to-even, written as integers counting ticks of   *)
(* 1/Scale degree.  One tick is the unit in the last place of the binade   *)
(* [8,16) that holds 360/27, so every value below 16 degrees lies on the   *)
(* tick grid and larger values are spaced 2, 4, 8 ... ticks apart.         *)
(*                                                                         *)
(* Text.  Devanagari strings of the source are written "hi:<name>", the    *)
(* module's character set being ASCII.                                     *)
(***************************************************************************)
EXTENDS Integers, Sequences, FiniteSets, TLC

VARIABLES pc, query, frame, outcome, steps, ephe_down, arg, ret

vars == <<pc, query, frame, outcome, steps, ephe_down, arg, ret>>

(***************************************************************************)
(* Floating point                                                          *)
(***************************************************************************)
MantBits == 7

Scale == 2 ^ (MantBits - 4)

Deg(d) == d * Scale

RECURSIVE Ulp(_)
\* Spacing of the floats around the magnitude x (x >= 0, in ticks).
Ulp(x) == IF x < 2 ^ MantBits THEN 1 ELSE 2 * Ulp(x \div 2)

\* The float nearest to the rational n/d (n >= 0, d > 0), ties to even.
RoundPos(n, d) ==
    LET u  == Ulp(n \div d)
        lo == ((n \div d) \div u) * u
        hi == lo + u
    IN  IF 2 * n < (lo + hi) * d THEN lo
        ELSE IF 2 * n > (lo + hi) * d THEN hi
        ELSE IF (lo \div u) % 2 = 0 THEN lo ELSE hi

RoundRat(n, d) == IF n < 0 THEN -RoundPos(-n, d) ELSE RoundPos(n, d)

RoundF(x) == RoundRat(x, 1)

IsFloat(x) == RoundF(x) = x

\* Python float - and +: the exact result, rounded.
FSub(a, b) == RoundF(a - b)

FAdd(a, b) == RoundF(a + b)

\* C fmod: exact, with the sign of x.
CFmod(x, y) == IF x < 0 THEN -((-x) % y) ELSE x % y

\* Python float % (float_rem): fmod, then y is added to a remainder of the
\* other sign, and that addition rounds.
FMod(x, y) ==
    LET mod == CFmod(x, y)
    IN  IF mod # 0 /\ mod < 0 THEN FAdd(mod, y) ELSE mod

\* Python float // (float_floor_div): fmod is exact and (x - mod) / y is an
\* exact small integer, so the result is the floor of the true quotient.
FFloorDiv(x, y) == x \div y

(***************************************************************************)
(* CONSTANTS of main.py                                                    *)
(***************************************************************************)
SIGNS == <<
    <<"hi:Mesh", "Aries">>, <<"hi:Vrishabh", "Taurus">>,
    <<"hi:Mithun", "Gemini">>, <<"hi:Kark", "Cancer">>,
    <<"hi:Singh", "Leo">>, <<"hi:Kanya", "Virgo">>,
    <<"hi:Tula", "Libra">>, <<"hi:Vrishchik", "Scorpio">>,
    <<"hi:Dhanu", "Sagittarius">>, <<"hi:Makar", "Capricorn">>,
    <<"hi:Kumbh", "Aquarius">>, <<"hi:Meen", "Pisces">> >>

NAKSHATRAS == <<
    <<"hi:Ashwini", "Ashwini">>, <<"hi:Bharani", "Bharani">>,
    <<"hi:Krittika", "Krittika">>, <<"hi:Rohini", "Rohini">>,
    <<"hi:Mrigashira", "Mrigashira">>, <<"hi:Ardra", "Ardra">>,
    <<"hi:Punarvasu", "Punarvasu">>, <<"hi:Pushya", "Pushya">>,
    <<"hi:Ashlesha", "Ashlesha">>, <<"hi:Magha", "Magha">>,
    <<"hi:PurvaPhalguni", "Purva Phalguni">>,
    <<"hi:UttaraPhalguni", "Uttara Phalguni">>, <<"hi:Hasta", "Hasta">>,
    <<"hi:Chitra", "Chitra">>, <<"hi:Swati", "Swati">>,
    <<"hi:Vishakha", "Vishakha">>, <<"hi:Anuradha", "Anuradha">>,
    <<"hi:Jyeshtha", "Jyeshtha">>, <<"hi:Mula", "Mula">>,
    <<"hi:PurvaAshadha", "Purva Ashadha">>,
    <<"hi:UttaraAshadha", "Uttara Ashadha">>, <<"hi:Shravana", "Shravana">>,
    <<"hi:Dhanishta", "Dhanishta">>, <<"hi:Shatabhisha", "Shatabhisha">>,
    <<"hi:PurvaBhadrapada", "Purva Bhadrapada">>,
    <<"hi:UttaraBhadrapada", "Uttara Bhadrapada">>,
    <<"hi:Revati", "Revati">> >>

TITHIS == <<
    <<"hi:Pratipada", "Pratipada">>, <<"hi:Dwitiya", "Dwitiya">>,
    <<"hi:Tritiya", "Tritiya">>, <<"hi:Chaturthi", "Chaturthi">>,
    <<"hi:Panchami", "Panchami">>, <<"hi:Shashthi", "Shashthi">>,
    <<"hi:Saptami", "Saptami">>, <<"hi:Ashtami", "Ashtami">>,
    <<"hi:Navami", "Navami">>, <<"hi:Dashami", "Dashami">>,
    <<"hi:Ekadashi", "Ekadashi">>, <<"hi:Dwadashi", "Dwadashi">>,
    <<"hi:Trayodashi", "Trayodashi">>, <<"hi:Chaturdashi", "Chaturdashi">>,
    <<"hi:Purnima", "Purnima">> >>

\* Python list indexing with a 0-based non-negative index.
Item(list, i) == list[i + 1]

(***************************************************************************)
(* HELPER FUNCTIONS of main.py                                             *)
(***************************************************************************)
\* index = int(lon / 30) % 12: the quotient cut toward zero.
ZodiacIndexTrunc(lon) ==
    (IF lon < 0 THEN -((-lon) \div Deg(30)) ELSE lon \div Deg(30)) % 12

\* index = int(lon // 12) % 12: the tithi's sector width.
ZodiacIndexTwelve(lon) == FFloorDiv(lon, Deg(12)) % 12

\* index = int(lon // 30) % 12
ZodiacIndex(lon) == FFloorDiv(lon, Deg(30)) % 12

zodiac_from_longitude(lon) == Item(SIGNS, ZodiacIndex(lon))

\* The float 360 / 27.
NakshatraSpan == RoundRat(Deg(360), 27)

\* index = int(lon // (360 / 27)) % 27
NakshatraIndex(lon) == FFloorDiv(lon, NakshatraSpan) % 27

nakshatra_from_longitude(lon) == Item(NAKSHATRAS, NakshatraIndex(lon))

\* diff = (moon_lon - sun_lon) % 360.0
TithiDiff(sun_lon, moon_lon) == FMod(FSub(moon_lon, sun_lon), Deg(360))

\* tithi_no = int(diff // 12.0)
TithiNo(sun_lon, moon_lon) == FFloorDiv(TithiDiff(sun_lon, moon_lon), Deg(12))

tithi_from_longitudes(sun_lon, moon_lon) ==
    LET tithi_no  == TithiNo(sun_lon, moon_lon)
        paksha_hi == IF tithi_no < 15 THEN "hi:Shukla" ELSE "hi:Krishna"
        tithi     == Item(TITHIS, tithi_no % 15)
    IN  <<paksha_hi \o " " \o tithi[1], paksha_hi \o " " \o tithi[2]>>

(***************************************************************************)
(* The classifier functions called on their own                            *)
(***************************************************************************)
NoRet == <<>>

\* Floats in [-360, 720): a turn on either side of the ephemeris' range.
LonInputs == {x \in Deg(-360) .. (Deg(720) - 1) : IsFloat(x)}

\* Floats in [0, 360): the range of an ephemeris longitude.
Longitudes == {x \in 0 .. (Deg(360) - 1) : IsFloat(x)}

IdleRequests ==
    /\ pc = <<>> /\ query = <<>> /\ frame = <<>>
    /\ outcome = <<>> /\ steps = <<>> /\ ephe_down = {}

InitLon ==
    /\ IdleRequests
    /\ arg \in {<<l>> : l \in LonInputs}
    /\ ret = NoRet

CallZodiac ==
    /\ Len(arg) = 1 /\ ret = NoRet
    /\ ret' = <<"zodiac", zodiac_from_longitude(arg[1])>>
    /\ UNCHANGED <<pc, query, frame, outcome, steps, ephe_down, arg>>

CallNakshatra ==
    /\ Len(arg) = 1 /\ ret = NoRet
    /\ ret' = <<"nakshatra", nakshatra_from_longitude(arg[1])>>
    /\ UNCHANGED <<pc, query, frame, outcome, steps, ephe_down, arg>>

NextLon == CallZodiac \/ CallNakshatra

SpecLon == InitLon /\ [][NextLon]_vars

InitTithi ==
    /\ IdleRequests
    /\ arg \in {<<s, m>> : s \in Longitudes, m \in Longitudes}
    /\ ret = NoRet

CallTithi ==
    /\ Len(arg) = 2 /\ ret = NoRet
    /\ ret' = <<"tithi", tithi_from_longitudes(arg[1], arg[2])>>
    /\ UNCHANGED <<pc, query, frame, outcome, steps, ephe_down, arg>>

NextTithi == CallTithi

SpecTithi == InitTithi /\ [][NextTithi]_vars

(***************************************************************************)
(* datetime: what strptime, timedelta and astimezone do                    *)
(***************************************************************************)
Digits == {"0", "1", "2", "3", "4", "5", "6", "7", "8", "9"}

DigitVal(c) ==
    CASE c = "0" -> 0 [] c = "1" -> 1 [] c = "2" -> 2 [] c = "3" -> 3
      [] c = "4" -> 4 [] c = "5" -> 5 [] c = "6" -> 6 [] c = "7" -> 7
      [] c = "8" -> 8 [] c = "9" -> 9

AllDigits(s) == \A i \in 1 .. Len(s) : s[i] \in Digits

RECURSIVE Number(_)
Number(s) ==
    IF s = <<>> THEN 0
    ELSE 10 * Number(SubSeq(s, 1, Len(s) - 1)) + DigitVal(s[Len(s)])

IsLeap(y) == (y % 4 = 0 /\ y % 100 # 0) \/ y % 400 = 0

DaysInMonth(y, m) ==
    IF m = 2 THEN (IF IsLeap(y) THEN 29 ELSE 28)
    ELSE IF m \in {4, 6, 9, 11} THEN 30 ELSE 31

ValueError == [error |-> "ValueError"]

\* datetime.strptime(date, "%Y-%m-%d"): four digits, a dash, a month of one
\* or two digits in 1..12, a dash, a day of one or two digits in 1..31 and
\* nothing more; then datetime(y, m, d), which rejects year 0 and a day the
\* month does not have.  A record of the fields, or ValueError.
Strptime(s) ==
    LET dash == IF Len(s) >= 7 /\ s[7] = "-" THEN 7 ELSE 8
        ytxt == SubSeq(s, 1, 4)
        mtxt == SubSeq(s, 6, dash - 1)
        dtxt == SubSeq(s, dash + 1, Len(s))
        wellFormed ==
            /\ Len(s) >= 8 /\ Len(s) <= 10
            /\ AllDigits(ytxt) /\ s[5] = "-"
            /\ s[dash] = "-"
            /\ Len(mtxt) \in {1, 2} /\ AllDigits(mtxt)
            /\ Number(mtxt) \in 1 .. 12
            /\ Len(dtxt) \in {1, 2} /\ AllDigits(dtxt)
            /\ Number(dtxt) \in 1 .. 31
    IN  IF ~wellFormed THEN ValueError
        ELSE IF Number(ytxt) < 1
                \/ Number(dtxt) > DaysInMonth(Number(ytxt), Number(mtxt))
        THEN ValueError
        ELSE [year |-> Number(ytxt), month |-> Number(mtxt),
              day |-> Number(dtxt), hour |-> 0, minute |-> 0, second |-> 0]

PrevDay(dt) ==
    IF dt.day > 1 THEN [dt EXCEPT !.day = @ - 1]
    ELSE IF dt.month > 1
    THEN [dt EXCEPT !.month = @ - 1,
                    !.day = DaysInMonth(dt.year, dt.month - 1)]
    ELSE [dt EXCEPT !.year = @ - 1, !.month = 12, !.day = 31]

NextDay(dt) ==
    IF dt.day < DaysInMonth(dt.year, dt.month) THEN [dt EXCEPT !.day = @ + 1]
    ELSE IF dt.month < 12 THEN [dt EXCEPT !.month = @ + 1, !.day = 1]
    ELSE [dt EXCEPT !.year = @ + 1, !.month = 1, !.day = 1]

\* datetime + timedelta(minutes = delta), for |delta| of less than a day.
PlusMinutes(dt, delta) ==
    LET total == dt.hour * 60 + dt.minute + delta
        day   == IF total < 0 THEN PrevDay(dt)
                 ELSE IF total >= 1440 THEN NextDay(dt) ELSE dt
        tod   == total % 1440
    IN  [day EXCEPT !.hour = tod \div 60, !.minute = tod % 60]

(***************************************************************************)
(* pytz: the time zone database                                            *)
(***************************************************************************)
KnownZones ==
    {"Asia/Kolkata", "UTC", "America/New_York", "Pacific/Kiritimati"}

StdOffset(zone) ==
    CASE zone = "Asia/Kolkata" -> 330
      [] zone = "UTC" -> 0
      [] zone = "America/New_York" -> -300
      [] zone = "Pacific/Kiritimati" -> 840

\* First and last day of daylight-saving time in America/New_York.
DstDays(year) ==
    CASE year = 2024 -> <<<<3, 10>>, <<11, 3>>>>
      [] year = 2026 -> <<<<3, 8>>, <<11, 1>>>>
      [] OTHER -> <<<<3, 8>>, <<11, 1>>>>

Before(a, b) ==
    \/ a[1] < b[1]
    \/ a[1] = b[1] /\ a[2] < b[2]
    \/ a[1] = b[1] /\ a[2] = b[2] /\ a[3] < b[3]

\* Wall clock time inside daylight-saving time: from 03:00 on the first day
\* to 01:00 on the last.  A wall time in the gap or in the repeated hour is
\* standard time, as localize(is_dst=False) resolves it.
InDst(zone, dt) ==
    /\ zone = "America/New_York"
    /\ LET span == DstDays(dt.year)
           wall == <<dt.month, dt.day, dt.hour * 60 + dt.minute>>
       IN  /\ ~Before(wall, <<span[1][1], span[1][2], 180>>)
           /\ Before(wall, <<span[2][1], span[2][2], 60>>)

\* Minutes east of UTC in force in the zone at the wall clock time dt.
UtcOffset(zone, dt) ==
    IF InDst(zone, dt) THEN StdOffset(zone) + 60 ELSE StdOffset(zone)

\* The zone's standard offset attached whatever the date.
LocalizeNoDst(zone, dt) == [naive |-> dt, utcoffset |-> StdOffset(zone)]

\* local_tz.localize(naive)
Localize(zone, dt) == [naive |-> dt, utcoffset |-> UtcOffset(zone, dt)]

\* aware.astimezone(pytz.UTC)
AsUtc(aware) == PlusMinutes(aware.naive, -aware.utcoffset)

(***************************************************************************)
(* swisseph                                                                *)
(***************************************************************************)
\* swe.julday(year, month, day, hour): the time the ephemeris is asked
\* for is fixed by these four arguments; the hour is counted in 1/3600.
JulDay(year, month, day, hour3600) == <<year, month, day, hour3600>>

\* jd_ut of astro(): the arguments taken from dt_utc.
JulDayOf(dt_utc) ==
    JulDay(dt_utc.year, dt_utc.month, dt_utc.day,
           dt_utc.hour * 3600 + dt_utc.minute * 60 + dt_utc.second)

\* date.toordinal()
Ordinal(y, m, d) ==
    LET before[k \in 1 .. 12] ==
            IF k = 1 THEN 0 ELSE before[k - 1] + DaysInMonth(y, k - 1)
    IN  365 * (y - 1) + (y - 1) \div 4 - (y - 1) \div 100
        + (y - 1) \div 400 + before[m] + d

\* The largest float not above x (x >= 0).
FloorF(x) == x - (x % Ulp(x))

\* Degrees a body moves in a day, in the stand-in ephemeris.
DailyMotion(body) == IF body = "SUN" THEN 1 ELSE 13

\* swe.calc_ut(jd_ut, body)[0][0]: a float in [0, 360) fixed by the time and
\* the body.  The ephemeris is a collaborator; a mean motion stands for it.
CalcUt(jd, body) ==
    LET days == Ordinal(jd[1], jd[2], jd[3]) - Ordinal(2000, 1, 1)
        turn == days * Deg(DailyMotion(body))
                + (jd[4] * Deg(DailyMotion(body))) \div 86400
    IN  FloorF(turn % Deg(360))

(***************************************************************************)
(* GET /astro                                                              *)
(***************************************************************************)
Requests == {"r1", "r2"}

Chars(a, b, c, d, e, f, g, h, i, j) == <<a, b, c, d, e, f, g, h, i, j>>

\* Values of the date parameter: any string reaches the handler.
DateInputs == {
    Chars("2", "0", "2", "6", "-", "0", "2", "-", "0", "6"),
    Chars("2", "0", "2", "6", "-", "0", "2", "-", "3", "0"),
    Chars("0", "6", "/", "0", "2", "/", "2", "0", "2", "6"),
    Chars("2", "0", "2", "6", "-", "0", "1", "-", "0", "1"),
    Chars("2", "0", "2", "4", "-", "0", "3", "-", "0", "1"),
    Chars("2", "0", "2", "6", "-", "0", "7", "-", "0", "4"),
    <<"2", "0", "2", "6", "-", "3", "-", "8">> }

\* Values of the tz parameter.
TzInputs == KnownZones \cup {"Mars/Phobos"}

\* Values of lat and lon, in 1/10000 degree: the defaults and another place.
Places == {<<286139, 772090>>, <<515074, -1278>>}

Queries ==
    {[date |-> d, tz |-> z, lat |-> p[1], lon |-> p[2]] :
        d \in DateInputs, z \in TzInputs, p \in Places}

NoQuery == <<>>

NoFrame == <<>>

NoBody == <<>>

NoOutcome == [status |-> 0, error |-> "", body |-> NoBody]

\* round(x, 6) of a longitude: millionths of a degree, ties to even.
Round6(x) ==
    LET n  == (x % Scale) * 1000000
        lo == n \div Scale
        up == IF 2 * (n % Scale) > Scale THEN 1
              ELSE IF 2 * (n % Scale) < Scale THEN 0
              ELSE lo % 2
    IN  (x \div Scale) * 1000000 + lo + up

\* An exception no handler catches: the framework answers 500 with no
\* field of the response.
Raise(r, exc) ==
    /\ pc' = [pc EXCEPT ![r] = "failed"]
    /\ outcome' = [outcome EXCEPT
                       ![r] = [status |-> 500, error |-> exc, body |-> NoBody]]

Step(r, name) == steps' = [steps EXCEPT ![r] = Append(@, name)]

Init ==
    /\ pc = [r \in Requests |-> "idle"]
    /\ query = [r \in Requests |-> NoQuery]
    /\ frame = [r \in Requests |-> NoFrame]
    /\ outcome = [r \in Requests |-> NoOutcome]
    /\ steps = [r \in Requests |-> <<>>]
    /\ ephe_down \in {{}, {"SUN"}, {"MOON"}}
    /\ arg = <<>>
    /\ ret = NoRet

\* The framework binds the query parameters and calls astro().
Receive(r) ==
    /\ pc[r] = "idle"
    /\ \E q \in Queries : query' = [query EXCEPT ![r] = q]
    /\ pc' = [pc EXCEPT ![r] = "timezone"]
    /\ UNCHANGED <<frame, outcome, steps, ephe_down, arg, ret>>

\* local_tz = pytz.timezone(tz)
LookupTimezone(r) ==
    /\ pc[r] = "timezone"
    /\ Step(r, "pytz.timezone")
    /\ IF query[r].tz \in KnownZones
       THEN /\ frame' = [frame EXCEPT ![r] = [local_tz |-> query[r].tz]]
            /\ pc' = [pc EXCEPT ![r] = "localize"]
            /\ UNCHANGED outcome
       ELSE /\ Raise(r, "UnknownTimeZoneError")
            /\ UNCHANGED frame
    /\ UNCHANGED <<query, ephe_down, arg, ret>>

\* dt_local = local_tz.localize(strptime(date, "%Y-%m-%d") + 6 hours);
\* dt_utc = dt_local.astimezone(pytz.UTC); jd_ut = swe.julday(...)
Normalize(r) ==
    /\ pc[r] = "localize"
    /\ Step(r, "strptime")
    /\ LET parsed == Strptime(query[r].date)
       IN  IF parsed = ValueError
           THEN /\ Raise(r, "ValueError")
                /\ UNCHANGED frame
           ELSE LET dt_local == Localize(frame[r].local_tz,
                                         PlusMinutes(parsed, 6 * 60))
                    dt_utc   == AsUtc(dt_local)
                IN  /\ frame' = [frame EXCEPT ![r] =
                                   @ @@ [dt_local |-> dt_local,
                                         dt_utc |-> dt_utc,
                                         jd_ut |-> JulDayOf(dt_utc)]]
                    /\ pc' = [pc EXCEPT ![r] = "sun"]
                    /\ UNCHANGED outcome
    /\ UNCHANGED <<query, ephe_down, arg, ret>>

\* The Sun asked for as seen from the request's place.
CalcSunTopocentric(r) ==
    /\ pc[r] = "sun"
    /\ Step(r, "calc_ut SUN")
    /\ IF "SUN" \in ephe_down
       THEN /\ Raise(r, "swe.Error")
            /\ UNCHANGED frame
       ELSE /\ frame' = [frame EXCEPT ![r] =
                           @ @@ [sun_lon |->
                                   FloorF((CalcUt(frame[r].jd_ut, "SUN")
                                           + query[r].lat \div 10000)
                                          % Deg(360))]]
            /\ pc' = [pc EXCEPT ![r] = "moon"]
            /\ UNCHANGED outcome
    /\ UNCHANGED <<query, ephe_down, arg, ret>>

\* sun_lon = swe.calc_ut(jd_ut, swe.SUN)[0][0]
CalcSun(r) ==
    /\ pc[r] = "sun"
    /\ Step(r, "calc_ut SUN")
    /\ IF "SUN" \in ephe_down
       THEN /\ Raise(r, "swe.Error")
            /\ UNCHANGED frame
       ELSE /\ frame' = [frame EXCEPT ![r] =
                           @ @@ [sun_lon |-> CalcUt(frame[r].jd_ut, "SUN")]]
            /\ pc' = [pc EXCEPT ![r] = "moon"]
            /\ UNCHANGED outcome
    /\ UNCHANGED <<query, ephe_down, arg, ret>>

\* A failed Moon query answered with what is known so far.
CalcMoonPartial(r) ==
    /\ pc[r] = "moon"
    /\ Step(r, "calc_ut MOON")
    /\ IF "MOON" \in ephe_down
       THEN /\ outcome' = [outcome EXCEPT ![r] =
                  [status |-> 200, error |-> "",
                   body |-> [date |-> query[r].date, timezone |-> query[r].tz,
                             sun |-> zodiac_from_longitude(frame[r].sun_lon)]]]
            /\ pc' = [pc EXCEPT ![r] = "done"]
            /\ UNCHANGED frame
       ELSE /\ frame' = [frame EXCEPT ![r] =
                           @ @@ [moon_lon |-> CalcUt(frame[r].jd_ut, "MOON")]]
            /\ pc' = [pc EXCEPT ![r] = "classify"]
            /\ UNCHANGED outcome
    /\ UNCHANGED <<query, ephe_down, arg, ret>>

\* moon_lon = swe.calc_ut(jd_ut, swe.MOON)[0][0]
CalcMoon(r) ==
    /\ pc[r] = "moon"
    /\ Step(r, "calc_ut MOON")
    /\ IF "MOON" \in ephe_down
       THEN /\ Raise(r, "swe.Error")
            /\ UNCHANGED frame
       ELSE /\ frame' = [frame EXCEPT ![r] =
                           @ @@ [moon_lon |-> CalcUt(frame[r].jd_ut, "MOON")]]
            /\ pc' = [pc EXCEPT ![r] = "classify"]
            /\ UNCHANGED outcome
    /\ UNCHANGED <<query, ephe_down, arg, ret>>

\* The dict astro() returns.
ResponseBody(q, sun_lon, moon_lon) ==
    LET sun   == zodiac_from_longitude(sun_lon)
        moon  == zodiac_from_longitude(moon_lon)
        nak   == nakshatra_from_longitude(moon_lon)
        tithi == tithi_from_longitudes(sun_lon, moon_lon)
    IN  [date |-> q.date,
         timezone |-> q.tz,
         sun |-> [longitude |-> Round6(sun_lon),
                  sign_hi |-> sun[1], sign_en |-> sun[2]],
         moon |-> [longitude |-> Round6(moon_lon),
                   sign_hi |-> moon[1], sign_en |-> moon[2]],
         panchang |-> [tithi |-> [hi |-> tithi[1], en |-> tithi[2]],
                       nakshatra |-> [hi |-> nak[1], en |-> nak[2]]]]

\* The four classifier calls and the return.
Respond(r) ==
    /\ pc[r] = "classify"
    /\ Step(r, "return")
    /\ outcome' = [outcome EXCEPT ![r] =
                       [status |-> 200, error |-> "",
                        body |-> ResponseBody(query[r], frame[r].sun_lon,
                                              frame[r].moon_lon)]]
    /\ pc' = [pc EXCEPT ![r] = "done"]
    /\ UNCHANGED <<query, frame, ephe_down, arg, ret>>

\* The worker takes up its next request: nothing of the last one is kept.
Recycle(r) ==
    /\ pc[r] \in {"done", "failed"}
    /\ pc' = [pc EXCEPT ![r] = "idle"]
    /\ query' = [query EXCEPT ![r] = NoQuery]
    /\ frame' = [frame EXCEPT ![r] = NoFrame]
    /\ outcome' = [outcome EXCEPT ![r] = NoOutcome]
    /\ steps' = [steps EXCEPT ![r] = <<>>]
    /\ UNCHANGED <<ephe_down, arg, ret>>

Next ==
    \E r \in Requests :
        \/ Receive(r)
        \/ LookupTimezone(r)
        \/ Normalize(r)
        \/ CalcSun(r)
        \/ CalcMoon(r)
        \/ Respond(r)
        \/ Recycle(r)

Spec == Init /\ [][Next]_vars

(***************************************************************************)
(* Properties                                                              *)
(***************************************************************************)
KMax == 12

Range(list) == {list[i] : i \in 1 .. Len(list)}

\* 0-based place of an entry in a table.
Pos(list, e) == (CHOOSE i \in 1 .. Len(list) : list[i] = e) - 1

Returned(fn) == ret # NoRet /\ ret[1] = fn

InTurn(lon) == lon >= 0 /\ lon < Deg(360)

Finished(r) == pc[r] \in {"done", "failed"}

BadDates == {
    Chars("2", "0", "2", "6", "-", "0", "2", "-", "3", "0"),
    Chars("0", "6", "/", "0", "2", "/", "2", "0", "2", "6") }

Asked(r) == {steps[r][i] : i \in 1 .. Len(steps[r])}

\* C1: a request with a malformed or impossible date ends in a 4xx error of
\* kind InvalidDateFormat, one with an unknown tz in a 4xx error of kind
\* UnknownTimeZone, and no ephemeris query is made for either.
C1_BadInputIsClientError ==
    \A r \in Requests :
        Finished(r) =>
            LET badTz   == query[r].tz \notin KnownZones
                badDate == query[r].date \in BadDates
            IN  /\ (badTz \/ badDate) =>
                    /\ outcome[r].status \in 400 .. 499
                    /\ Asked(r) \cap {"calc_ut SUN", "calc_ut MOON"} = {}
                /\ (badTz /\ ~badDate) => outcome[r].error = "UnknownTimeZone"
                /\ (badDate /\ ~badTz) => outcome[r].error = "InvalidDateFormat"

\* C2: the tithi label is a local-script paksha and base name paired with
\* the transliterated paksha (Shukla or Krishna) and transliterated base
\* name; equal longitudes give "Shukla Pratipada" in English.
C2_TithiLabelBilingual ==
    Returned("tithi") =>
        /\ \E i \in 1 .. Len(TITHIS) :
            \E p \in {<<"hi:Shukla", "Shukla">>, <<"hi:Krishna", "Krishna">>} :
                ret[2] = <<p[1] \o " " \o TITHIS[i][1],
                           p[2] \o " " \o TITHIS[i][2]>>
        /\ (arg[1] = arg[2]) => ret[2][2] = "Shukla Pratipada"

\* C3: with diff the Moon's longitude less the Sun's, reduced to [0, 360),
\* the paksha is the waxing one exactly when diff < 180 and the base name is
\* entry floor(diff / 12) mod 15 of the tithi table.
C3_TithiPakshaAndName ==
    Returned("tithi") =>
        LET diff   == (arg[2] - arg[1]) % Deg(360)
            paksha == IF diff < Deg(180) THEN "hi:Shukla" ELSE "hi:Krishna"
        IN  ret[2][1] =
                paksha \o " " \o Item(TITHIS, (diff \div Deg(12)) % 15)[1]

\* C4: the difference is reduced to [0, 360) before flooring, so the tithi
\* index is in 0..29, never 30, and the label does not change when 360 is
\* added to either longitude.
C4_TithiIndexInRange ==
    Returned("tithi") =>
        /\ TithiDiff(arg[1], arg[2]) >= 0
        /\ TithiDiff(arg[1], arg[2]) < Deg(360)
        /\ TithiNo(arg[1], arg[2]) \in 0 .. 29
        /\ tithi_from_longitudes(FAdd(arg[1], Deg(360)), arg[2]) = ret[2]
        /\ tithi_from_longitudes(arg[1], FAdd(arg[2], Deg(360))) = ret[2]

FullBody(b) ==
    /\ DOMAIN b = {"date", "timezone", "sun", "moon", "panchang"}
    /\ DOMAIN b.sun = {"longitude", "sign_hi", "sign_en"}
    /\ DOMAIN b.moon = {"longitude", "sign_hi", "sign_en"}
    /\ DOMAIN b.panchang = {"tithi", "nakshatra"}
    /\ DOMAIN b.panchang.tithi = {"hi", "en"}
    /\ DOMAIN b.panchang.nakshatra = {"hi", "en"}

\* C6: a request ends either with a complete response (date, timezone, both
\* longitudes, all six labels) or with an error and no field at all, never
\* with part of the fields, and no step of it is run twice.
C6_CompleteOrError ==
    \A r \in Requests :
        /\ ~Finished(r) => outcome[r] = NoOutcome
        /\ pc[r] = "done" =>
            /\ outcome[r].status = 200
            /\ outcome[r].error = ""
            /\ FullBody(outcome[r].body)
        /\ pc[r] = "failed" =>
            /\ outcome[r].status # 200
            /\ outcome[r].error # ""
            /\ outcome[r].body = NoBody
        /\ Cardinality(Asked(r)) = Len(steps[r])

\* C6 happens: the Moon query fails after the Sun query succeeded.
C6_Witness ==
    \E r \in Requests :
        /\ pc[r] = "failed"
        /\ "sun_lon" \in DOMAIN frame[r]
        /\ steps[r][Len(steps[r])] = "calc_ut MOON"
        /\ outcome[r].body = NoBody

\* C7: for lon in [0, 360) the sign is the one at index floor(lon / 30), in
\* 0..11 from Aries; a negative lon is floored, not cut, so it lands in
\* 0..11 too and a longitude just below 0 is Pisces.
C7_ZodiacIndexFloors ==
    Returned("zodiac") =>
        LET lon == arg[1]
            i   == Pos(SIGNS, ret[2])
        IN  /\ ret[2] \in Range(SIGNS)
            /\ i \in 0 .. 11
            /\ InTurn(lon) => Deg(30) * i <= lon /\ lon < Deg(30) * (i + 1)
            /\ lon < 0 =>
                /\ Deg(30) * i <= lon + Deg(360)
                /\ lon + Deg(360) < Deg(30) * (i + 1)
            /\ lon = 0 => ret[2] = <<"hi:Mesh", "Aries">>
            /\ (lon < 0 /\ lon >= -Deg(30)) => ret[2][2] = "Pisces"

\* C7 happens: the float next below 0 is classified.
C7_Witness == Returned("zodiac") /\ arg[1] = -1 /\ ret[2][2] = "Pisces"

\* C8 as stated: zodiacOf(lon) = zodiacOf((lon + 30 k) mod 360) for lon in
\* [0, 360) and every integer k.
C8_ZodiacPeriodThirty ==
    (Returned("zodiac") /\ InTurn(arg[1])) =>
        \A k \in -KMax .. KMax :
            LET lon2 == (arg[1] + Deg(30) * k) % Deg(360)
            IN  IsFloat(lon2) => zodiac_from_longitude(lon2) = ret[2]

\* C8 amended: for lon in [0, 360) and every integer k, the sign of
\* (lon + 30 k) mod 360 is the one k places after the sign of lon in the
\* cycle of 12, the same sign only when k is a multiple of 12.
C8_ZodiacShiftsWithSector ==
    (Returned("zodiac") /\ InTurn(arg[1])) =>
        \A k \in -KMax .. KMax :
            LET lon2 == (arg[1] + Deg(30) * k) % Deg(360)
                sign == zodiac_from_longitude(lon2)
            IN  IsFloat(lon2) =>
                    /\ Pos(SIGNS, sign) = (Pos(SIGNS, ret[2]) + k) % 12
                    /\ (sign = ret[2]) <=> (k % 12 = 0)

\* C8 happens: a shift of whole sectors that wraps past 360 and changes
\* the sign.
C8_Witness ==
    /\ Returned("zodiac") /\ InTurn(arg[1])
    /\ \E k \in 1 .. KMax :
        /\ arg[1] + Deg(30) * k >= Deg(360)
        /\ IsFloat((arg[1] + Deg(30) * k) % Deg(360))
        /\ zodiac_from_longitude((arg[1] + Deg(30) * k) % Deg(360)) # ret[2]

\* C9: for lon in [0, 360) the nakshatra is the one at index
\* floor(lon / (360/27)), in 0..26 from Ashwini: a multiple n (360/27) of
\* the sector maps to n and a longitude just below it to n - 1.
C9_NakshatraIndexExact ==
    (Returned("nakshatra") /\ InTurn(arg[1])) =>
        /\ ret[2] \in Range(NAKSHATRAS)
        /\ Pos(NAKSHATRAS, ret[2]) \in 0 .. 26
        /\ Pos(NAKSHATRAS, ret[2]) = (arg[1] * 27) \div Deg(360)

\* C10: two requests with the same date and tz get the same ephemeris time
\* and the same response, whatever their lat and lon, whatever was served
\* before and however their steps interleave.
C10_SameDateTzSameOutcome ==
    \A r1, r2 \in Requests :
        (/\ query[r1] # NoQuery /\ query[r2] # NoQuery
         /\ query[r1].date = query[r2].date
         /\ query[r1].tz = query[r2].tz) =>
            /\ ("jd_ut" \in DOMAIN frame[r1] /\ "jd_ut" \in DOMAIN frame[r2])
                => frame[r1].jd_ut = frame[r2].jd_ut
            /\ (Finished(r1) /\ Finished(r2)) => outcome[r1] = outcome[r2]

\* C10 happens: two answered requests for the same date and tz from
\* different places.
C10_Witness ==
    \E r1, r2 \in Requests :
        /\ pc[r1] = "done" /\ pc[r2] = "done"
        /\ query[r1].date = query[r2].date
        /\ query[r1].tz = query[r2].tz
        /\ query[r1].lat # query[r2].lat

====
